---------------------------- MODULE Spec2Model ----------------------------
(***************************************************************************)
(* The shared-memory circular buffer of 1B-3coloring-filipppp: one         *)
(* supervisor (the single reader) and generator processes (the writers)   *)
(* synchronised by the named semaphores free, used and mutex.             *)
(*                                                                         *)
(* Granularity: one action per C statement that touches shared memory or  *)
(* a semaphore.  Purely process-local work (return, break, printf, the    *)
(* detach of a generator) is folded into the step before it.  A sem_wait  *)
(* either succeeds (value > 0, decrement) or returns -1, the outcome that *)
(* every call site in the source tests for; a failed wait of the          *)
(* supervisor is either EINTR (only SIGINT has a handler, so quit is 1    *)
(* when the wait returns) or another errno.                               *)
(***************************************************************************)
EXTENDS Integers, Sequences, FiniteSets, TLC

\* Ring size.  shm.h sets MAX_DATA to 400; the protocol is the same for every
\* ring size and the model explores a small one so that the ring fills and wraps.
MAX_DATA == 3

\* Generator slots (processes that may run at the same time), add_solution
\* calls started in one run, and sem_wait calls that return -1 in one run.
NProd == 1
MaxCalls == 1
MaxFails == 1

\* The same three limits for the runs that need two writers inside
\* add_solution at once (one failed wait on mutex and two later calls).
WideProd == NProd + 1
WideCalls == MaxCalls + 2
WideFails == MaxFails

\* Processes that run open_cbuff and close_cbuff side by side.
NLife == 2

\* generator.c: candidates with more conflicting edges are not submitted.
MIN_BOUNDARY == 8

\* forksort: the longest input, in lines, and what a pipe holds, in lines.
MaxLines == 4
PipeCap == 1

\* The graph every generator is started with (argv), as its edge list.
Graph == << <<1, 4>> >>

Slots == 0..(MAX_DATA - 1)

\* SHM_NAME, SEM_FREE, SEM_USED, SEM_MUTEX.
SemNames == {"free", "used", "mutex"}
AllNames == {"shm"} \cup SemNames

VARIABLES
    \* shared_memory_t
    halt, data, write_idx, read_idx,
    \* the three named semaphores (their values) and the names that exist in
    \* the system namespace (shm_open / sem_open names)
    sem_free, sem_used, sem_mutex, names,
    \* generators: position, the buffer passed to add_solution, loop index i
    pc, edges, idx,
    \* generators: graph_t *graph, the edges (node ids) and the node colours
    graph,
    \* history of each generator's current add_solution call: waits on free
    \* that succeeded, posts on used, write_idx and halt when it acquired mutex
    acct,
    \* supervisor: position, which loop called read_buffer, locals of main
    spc, ctx, size, si, min_deletions, errno, quit, rdata, colorable,
    \* history: calls started, id of each generator's call, calls that returned
    \* true, generator processes that have called, words written, words read,
    \* slots written since they were last read, sem_wait calls that have failed
    calls, call, okCalls, callers, wlog, rlog, fresh, fails,
    \* the limits of the run: [calls |-> .., fails |-> ..]
    budget,
    \* history: what the supervisor printed, the state at its last header read,
    \* the calls that returned true in the order of their return, the steps
    \* of the halting sequence
    out, snap, rel, tlog,
    \* processes that run open_cbuff and close_cbuff step by step
    op,
    \* forksort: the lines left on the parent's stdin, the parent's position
    \* and line_count, the pipes to and from the two children (child_t), the
    \* children and the locals and output of the parent's merge loop
    input, ppc, line_count, stdin_pipe, stdout_pipe, child, merge

\* The generator slots of the run.
Producers == DOMAIN pc

shm == <<halt, data, write_idx, read_idx>>
sems == <<sem_free, sem_used, sem_mutex>>
gen == <<pc, edges, idx, call, acct, graph>>
sup == <<spc, ctx, size, si, min_deletions, errno, quit, rdata, colorable>>
hist == <<calls, okCalls, callers, wlog, rlog, fresh, fails, budget>>
fsort == <<input, ppc, line_count, stdin_pipe, stdout_pipe, child, merge>>
more == <<out, snap, rel, tlog, op, fsort>>
vars == <<shm, sems, names, more, gen, sup, hist>>

-----------------------------------------------------------------------------
\* get_deletion_edges: the conflicting edges of a colouring, in edge order,
\* flattened to node1, node2, node1, node2, ...
RECURSIVE Flatten(_, _)
Flatten(S, k) ==
    IF k > Len(Graph) THEN << >>
    ELSE (IF k \in S THEN Graph[k] ELSE << >>) \o Flatten(S, k + 1)

\* Every set of conflicting edges some colouring can produce.
Candidates == { Flatten(S, 1) : S \in SUBSET (1..Len(Graph)) }

\* The processes before their first step and the empty history: np generator
\* slots, at most nc calls of add_solution and nf failing calls.
\* The node ids of an edge list, and create_graph_from_args: every node that
\* occurs in an edge, with colour 0.
NodeIds(g) == {g[k][1] : k \in 1..Len(g)} \cup {g[k][2] : k \in 1..Len(g)}
NewGraph(g) == [edges |-> g, color |-> [n \in NodeIds(g) |-> 0]]

NoAcct == [w |-> 0, u |-> 0, at |-> 0, h |-> FALSE]

Locals(np, nc, nf) ==
    /\ pc = [p \in 1..np |-> "gen"]
    /\ acct = [p \in 1..np |-> NoAcct]
    /\ edges = [p \in 1..np |-> << >>]
    /\ idx = [p \in 1..np |-> 0]
    /\ call = [p \in 1..np |-> 0]
    /\ spc = "loop"
    /\ ctx = "hdr"
    /\ size = -1
    /\ si = 0
    /\ min_deletions = -1
    /\ errno = "none"
    /\ quit = 0
    /\ rdata = 0
    /\ colorable = FALSE
    /\ calls = 0
    /\ okCalls = {}
    /\ callers = 0
    /\ wlog = << >>
    /\ rlog = << >>
    /\ fresh = [s \in Slots |-> FALSE]
    /\ fails = 0
    /\ budget = [calls |-> nc, fails |-> nf]
    /\ out = << >>
    /\ snap = [best |-> -1, nout |-> 0, at |-> 0]
    /\ rel = << >>
    /\ tlog = << >>

\* getline has returned -1.
EndOfFile == -1

\* The locals of main's merge loop and what it has printed.
NewMerge ==
    [first |-> 0, second |-> 0, skip_first |-> FALSE, skip_second |-> FALSE,
     printed |-> << >>]

\* A child before its fork.
NewChild == [pc |-> "none", lines |-> << >>, outq |-> << >>]

\* No forksort runs.
NoSort ==
    /\ input = << >>
    /\ ppc = "off"
    /\ line_count = 0
    /\ stdin_pipe = [k \in 1..2 |-> << >>]
    /\ stdout_pipe = [k \in 1..2 |-> << >>]
    /\ child = [k \in 1..2 |-> NewChild]
    /\ merge = NewMerge

\* open_shm(server): the indexes and halt are reset; ftruncate zero-fills data.
\* open_cbuff(server): free = MAX_DATA, used = 0, mutex = 1.
Created(np, nc, nf) ==
    /\ halt = FALSE
    /\ data = [s \in Slots |-> 0]
    /\ write_idx = 0
    /\ read_idx = 0
    /\ sem_free = MAX_DATA
    /\ sem_used = 0
    /\ sem_mutex = 1
    /\ names = AllNames
    /\ op = << >>
    /\ graph = [p \in 1..np |-> NewGraph(Graph)]
    /\ Locals(np, nc, nf)
    /\ NoSort

Init == Created(NProd, MaxCalls, MaxFails)

WideInit == Created(WideProd, WideCalls, WideFails)

-----------------------------------------------------------------------------
(* shm.c.                                                                  *)

\* shm_unlink(SHM_NAME) after a failed ftruncate or mmap in open_shm.
ShmUnlinked(n) == n \ {"shm"}

\* A close_shm that returns false at the first call that fails.
CloseShmAborting(server, okUnmap, okClose, n) ==
    IF ~okUnmap
    THEN [status |-> FALSE, names |-> n,
          steps |-> << [call |-> "munmap", ok |-> FALSE] >>]
    ELSE IF ~okClose
    THEN [status |-> FALSE, names |-> n,
          steps |-> << [call |-> "munmap", ok |-> TRUE],
                       [call |-> "close", ok |-> FALSE] >>]
    ELSE [status |-> ~server \/ "shm" \in n,
          names |-> IF server THEN n \ {"shm"} ELSE n,
          steps |-> << [call |-> "munmap", ok |-> TRUE],
                       [call |-> "close", ok |-> TRUE] >>
                    \o (IF server
                        THEN << [call |-> "shm_unlink", ok |-> "shm" \in n] >>
                        ELSE << >>)]

\* close_shm(shm, fd, server) when munmap and close succeed as given and n
\* are the names that exist: the calls made with their outcomes, the status
\* returned, and the names left.  shm_unlink fails when the name is absent.
CloseShm(server, okUnmap, okClose, n) ==
    LET s0 == TRUE
        s1 == IF ~okUnmap THEN FALSE ELSE s0
        s2 == IF ~okClose THEN FALSE ELSE s1
        s3 == IF server THEN (IF "shm" \notin n THEN FALSE ELSE s2) ELSE s2
    IN [status |-> s3,
        steps |-> << [call |-> "munmap", ok |-> okUnmap],
                     [call |-> "close", ok |-> okClose] >>
                  \o (IF server
                      THEN << [call |-> "shm_unlink", ok |-> "shm" \in n] >>
                      ELSE << >>),
        names |-> IF server THEN n \ {"shm"} ELSE n]

-----------------------------------------------------------------------------
(* Generators: generator.c main and add_solution.  pc "gen" is a slot      *)
(* whose generator is at the top of its loop, or has exited and may be     *)
(* replaced by a new process: call[p] is 0 when the next call of the slot  *)
(* is the first call of a process.                                         *)

\* The word add_solution writes in iteration i: the size first, then edges[i-1].
FrameWord(e, i) == IF i = 0 THEN Len(e) ELSE e[i]

\* write_idx %= MAX_DATA and read_idx %= MAX_DATA.
Wrap(k) == k % MAX_DATA

\* A store to data[w] with w outside 0..MAX_DATA-1 is undefined behaviour.  In
\* shared_memory_t the array is followed by write_idx and then read_idx, so the
\* store either lands on the field at that offset or has no effect on the
\* modelled state.  The result is the set of possible <<write_idx, read_idx>>.
OobStore(w, v) ==
    { <<write_idx, read_idx>> } \cup
    (IF w = MAX_DATA THEN { <<v, read_idx>> } ELSE {}) \cup
    (IF w = MAX_DATA + 1 THEN { <<write_idx, v>> } ELSE {})

\* A load of data[r] with r outside 0..MAX_DATA-1: the field at that offset, or
\* the zero-filled rest of the mapping.
OobLoad(r) ==
    { 0 } \cup
    (IF r = MAX_DATA THEN { write_idx } ELSE {}) \cup
    (IF r = MAX_DATA + 1 THEN { read_idx } ELSE {})

\* A generator that submits every candidate.
SubmitsAll(edge_count) == TRUE

\* if (edge_count > MIN_BOUNDARY) continue; otherwise add_solution is called.
Submits(edge_count) == ~(edge_count > MIN_BOUNDARY)

\* while (!halt): colour, collect the conflicting edges and call add_solution
\* when there are at most MIN_BOUNDARY.  (With halt set the generator detaches
\* and exits, which changes nothing that is shared.)
GenLoop(p) ==
    /\ p \in Producers
    /\ pc[p] = "gen"
    /\ call[p] = 0 => AllNames \subseteq names
    /\ ~halt
    /\ calls < budget.calls
    /\ \E e \in Candidates :
          /\ Submits(Len(e) \div 2)
          /\ edges' = [edges EXCEPT ![p] = e]
    /\ calls' = calls + 1
    /\ call' = [call EXCEPT ![p] = calls + 1]
    /\ callers' = IF call[p] = 0 THEN callers + 1 ELSE callers
    /\ pc' = [pc EXCEPT ![p] = "as_mutex"]
    /\ UNCHANGED <<shm, sems, names, graph, more, idx, acct, sup, okCalls, wlog, rlog,
                   fresh, fails, budget>>

\* A new generator process in slot p: open_cbuff(false) fails in open_shm's
\* mmap, which calls shm_unlink(SHM_NAME) before it returns NULL; main exits.
AttachFail(p) ==
    /\ p \in Producers
    /\ pc[p] = "gen"
    /\ call[p] = 0
    /\ "shm" \in names
    /\ fails < budget.fails
    /\ fails' = fails + 1
    /\ names' = ShmUnlinked(names)
    /\ UNCHANGED <<shm, sems, more, gen, sup, calls, okCalls, callers, wlog,
                   rlog, fresh, budget>>

\* An add_solution that does not test what sem_wait(mutex) returned.
AfterMutexWaitUnchecked(r) == "as_loop"

\* if (sem_wait(cbuff->sem_mutex) == -1) { ...; return false; }: where
\* add_solution goes when sem_wait returned r.
AfterMutexWait(r) == IF r = -1 THEN "return" ELSE "as_loop"

\* sem_wait(mutex) succeeds; i = 0.
AsMutexOk(p) ==
    /\ p \in Producers
    /\ pc[p] = "as_mutex"
    /\ sem_mutex > 0
    /\ sem_mutex' = sem_mutex - 1
    /\ idx' = [idx EXCEPT ![p] = 0]
    /\ acct' = [acct EXCEPT ![p] = [w |-> 0, u |-> 0, at |-> write_idx, h |-> halt]]
    /\ pc' = [pc EXCEPT ![p] = AfterMutexWait(0)]
    /\ UNCHANGED <<shm, sem_free, sem_used, names, graph, more, edges, call, sup, hist>>

\* What add_solution does to mutex when sem_wait(mutex) returned -1.
MutexAfterFailedWait(m) == m + 1

\* add_solution returned false: the generator leaves its loop, detaches
\* (close_cbuff(cbuff, false)) and exits.
Exited(p) ==
    /\ pc' = [pc EXCEPT ![p] = "gen"]
    /\ call' = [call EXCEPT ![p] = 0]
    /\ idx' = [idx EXCEPT ![p] = 0]
    /\ edges' = [edges EXCEPT ![p] = << >>]
    /\ acct' = [acct EXCEPT ![p] = NoAcct]

\* sem_wait(mutex) fails: sem_post(mutex), return false.
AsMutexFail(p) ==
    /\ p \in Producers
    /\ pc[p] = "as_mutex"
    /\ fails < budget.fails
    /\ fails' = fails + 1
    /\ sem_mutex' = MutexAfterFailedWait(sem_mutex)
    /\ IF AfterMutexWait(-1) = "return"
       THEN Exited(p)
       ELSE /\ pc' = [pc EXCEPT ![p] = AfterMutexWait(-1)]
            /\ idx' = [idx EXCEPT ![p] = 0]
            /\ acct' = [acct EXCEPT ![p] = [w |-> 0, u |-> 0, at |-> write_idx, h |-> halt]]
            /\ UNCHANGED <<edges, call>>
    /\ UNCHANGED <<shm, sem_free, sem_used, names, graph, more, sup, calls, okCalls,
                   callers, wlog, rlog, fresh, budget>>

\* An add_solution whose loop does not look at halt.
AsLoopIgnoringHalt(p) ==
    /\ p \in Producers
    /\ pc[p] = "as_loop"
    /\ pc' = [pc EXCEPT ![p] = "as_free"]
    /\ UNCHANGED <<sem_mutex, call, idx, edges, acct>>
    /\ UNCHANGED <<shm, sem_free, sem_used, names, graph, more, sup, hist>>

\* Top of an iteration (i <= size): halt set: sem_post(mutex), return false.
AsLoop(p) ==
    /\ p \in Producers
    /\ pc[p] = "as_loop"
    /\ IF halt
       THEN /\ sem_mutex' = sem_mutex + 1
            /\ Exited(p)
       ELSE /\ pc' = [pc EXCEPT ![p] = "as_free"]
            /\ UNCHANGED <<sem_mutex, call, idx, edges, acct>>
    /\ UNCHANGED <<shm, sem_free, sem_used, names, graph, more, sup, hist>>

\* sem_wait(free) succeeds.
AsFreeOk(p) ==
    /\ p \in Producers
    /\ pc[p] = "as_free"
    /\ sem_free > 0
    /\ sem_free' = sem_free - 1
    /\ acct' = [acct EXCEPT ![p].w = @ + 1]
    /\ pc' = [pc EXCEPT ![p] = "as_write"]
    /\ UNCHANGED <<shm, sem_used, sem_mutex, names, graph, more, edges, idx, call, sup, hist>>

\* sem_wait(free) fails: sem_post(mutex), return false.
AsFreeFail(p) ==
    /\ p \in Producers
    /\ pc[p] = "as_free"
    /\ fails < budget.fails
    /\ fails' = fails + 1
    /\ sem_mutex' = sem_mutex + 1
    /\ Exited(p)
    /\ UNCHANGED <<shm, sem_free, sem_used, names, graph, more, sup, calls, okCalls,
                   callers, wlog, rlog, fresh, budget>>

\* data[write_idx] = (i == 0) ? size : edges[i - 1].
AsWrite(p) ==
    /\ p \in Producers
    /\ pc[p] = "as_write"
    /\ LET v == FrameWord(edges[p], idx[p])
       IN IF write_idx \in Slots
          THEN /\ data' = [data EXCEPT ![write_idx] = v]
               /\ wlog' = Append(wlog, [c |-> call[p], i |-> idx[p],
                                        n |-> Len(edges[p]), v |-> v,
                                        s |-> write_idx, h |-> halt])
               /\ fresh' = [fresh EXCEPT ![write_idx] = TRUE]
               /\ UNCHANGED <<write_idx, read_idx>>
          ELSE /\ \E o \in OobStore(write_idx, v) :
                     /\ write_idx' = o[1]
                     /\ read_idx' = o[2]
               /\ UNCHANGED <<data, wlog, fresh>>
    /\ pc' = [pc EXCEPT ![p] = "as_inc"]
    /\ UNCHANGED <<halt, sems, names, graph, more, edges, idx, call, acct, sup, calls,
                   okCalls, callers, rlog, fails, budget>>

\* write_idx++.
AsInc(p) ==
    /\ p \in Producers
    /\ pc[p] = "as_inc"
    /\ write_idx' = write_idx + 1
    /\ pc' = [pc EXCEPT ![p] = "as_mod"]
    /\ UNCHANGED <<halt, data, read_idx, sems, names, graph, more, edges, idx, call, acct,
                   sup, hist>>

\* write_idx %= MAX_DATA.
AsMod(p) ==
    /\ p \in Producers
    /\ pc[p] = "as_mod"
    /\ write_idx' = Wrap(write_idx)
    /\ pc' = [pc EXCEPT ![p] = "as_used"]
    /\ UNCHANGED <<halt, data, read_idx, sems, names, graph, more, edges, idx, call, acct,
                   sup, hist>>

\* An add_solution that does not post used after its write.
AsUsedWithoutPost(p) ==
    /\ p \in Producers
    /\ pc[p] = "as_used"
    /\ idx' = [idx EXCEPT ![p] = idx[p] + 1]
    /\ acct' = [acct EXCEPT ![p].u = @ + 1]
    /\ pc' = [pc EXCEPT ![p] = IF idx[p] + 1 <= Len(edges[p])
                                THEN "as_loop" ELSE "as_exit"]
    /\ UNCHANGED <<shm, sems, names, graph, more, edges, call, sup, hist>>

\* sem_post(used); ++i; leave the loop when i > size.
AsUsed(p) ==
    /\ p \in Producers
    /\ pc[p] = "as_used"
    /\ sem_used' = sem_used + 1
    /\ idx' = [idx EXCEPT ![p] = idx[p] + 1]
    /\ acct' = [acct EXCEPT ![p].u = @ + 1]
    /\ pc' = [pc EXCEPT ![p] = IF idx[p] + 1 <= Len(edges[p])
                                THEN "as_loop" ELSE "as_exit"]
    /\ UNCHANGED <<shm, sem_free, sem_mutex, names, graph, more, edges, call, sup, hist>>

\* After the loop: sem_post(mutex), return true; back to the generator's loop.
AsExit(p) ==
    /\ p \in Producers
    /\ pc[p] = "as_exit"
    /\ sem_mutex' = sem_mutex + 1
    /\ okCalls' = okCalls \cup {call[p]}
    /\ rel' = Append(rel, call[p])
    /\ pc' = [pc EXCEPT ![p] = "gen"]
    /\ idx' = [idx EXCEPT ![p] = 0]
    /\ edges' = [edges EXCEPT ![p] = << >>]
    /\ acct' = [acct EXCEPT ![p] = NoAcct]
    /\ UNCHANGED <<shm, sem_free, sem_used, names, graph, out, snap, tlog, op, call,
                   sup, calls, callers, wlog, rlog, fresh, fails, budget, fsort>>

Generator(p) ==
    \/ GenLoop(p) \/ AttachFail(p)
    \/ AsMutexOk(p) \/ AsMutexFail(p) \/ AsLoop(p)
    \/ AsFreeOk(p) \/ AsFreeFail(p)
    \/ AsWrite(p) \/ AsInc(p) \/ AsMod(p) \/ AsUsed(p) \/ AsExit(p)

-----------------------------------------------------------------------------
(* Supervisor: supervisor.c main, read_buffer, print_solution_string,      *)
(* skip_solution and the server side of close_cbuff.                       *)

\* long deletions = size / 2.
Deletions(k) == k \div 2

\* An Improves that takes the larger value.
ImprovesIfLarger(d, m) == m = -1 \/ d > m

\* Improves without the first-frame case.
ImprovesOnlyIfSmaller(d, m) == d < m

\* if (min_deletions == -1 || deletions < min_deletions).
Improves(d, m) == m = -1 \/ d < m

\* What main and print_solution_string print for the word just read: for a
\* header that improves on the best and is not 0, "Solution with d edges:";
\* for payload word i of print_solution_string, " v" when i is even and "-v"
\* when i is odd.  o is the output so far, a sequence of solutions, each with
\* its d and the tokens printed after it.
Printed(c, word, i, best, o) ==
    CASE c = "hdr" ->
            IF Improves(Deletions(word), best) /\ Deletions(word) # 0
            THEN Append(o, [d |-> Deletions(word), e |-> << >>])
            ELSE o
      [] c = "print" ->
            [o EXCEPT ![Len(o)].e =
                Append(@, [sep |-> IF i % 2 = 0 THEN " " ELSE "-", v |-> word])]
      [] OTHER -> o

\* What read_buffer does to used when sem_wait(used) returned -1.
UsedAfterFailedWait(u) == u + 1

\* Position in wlog of the unread word in slot r, 0 when the slot holds none
\* (never written, or not written since it was last read).
WordIn(r) ==
    IF r \in Slots /\ fresh[r]
    THEN CHOOSE j \in 1..Len(wlog) :
            /\ wlog[j].s = r
            /\ \A k \in (j + 1)..Len(wlog) : wlog[k].s # r
    ELSE 0

\* SIGINT: handle_signal sets quit.  (main reads quit only in its loop.)
Sigint ==
    /\ spc \in {"loop", "rb_wait", "rb_read", "rb_mod", "rb_post"}
    /\ quit = 0
    /\ quit' = 1
    /\ UNCHANGED <<shm, sems, names, more, gen, spc, ctx, size, si, min_deletions,
                   errno, rdata, colorable, hist>>

\* while (!quit) size = read_buffer(cbuff); after the loop: halt = true.
SupLoop ==
    /\ spc = "loop"
    /\ IF quit = 1
       THEN spc' = "set_halt" /\ UNCHANGED ctx
       ELSE spc' = "rb_wait" /\ ctx' = "hdr"
    /\ UNCHANGED <<shm, sems, names, more, gen, size, si, min_deletions, errno, quit,
                   rdata, colorable, hist>>

\* read_buffer: sem_wait(used) succeeds.
RbWaitOk ==
    /\ spc = "rb_wait"
    /\ sem_used > 0
    /\ sem_used' = sem_used - 1
    /\ spc' = "rb_read"
    /\ UNCHANGED <<shm, sem_free, sem_mutex, names, more, gen, ctx, size, si,
                   min_deletions, errno, quit, rdata, colorable, hist>>

\* A sem_wait that fails with EINTR although no handler has set quit.
QuitUntouched(e, q) == q

\* quit when sem_wait has failed with errno e: sigaction installs a handler
\* for SIGINT only (without SA_RESTART), so a wait fails with EINTR only after
\* handle_signal has run.
QuitAfter(e, q) == IF e = "EINTR" THEN 1 ELSE q

\* A read_buffer that does not post free.
FreeNotPosted(f) == f

\* read_buffer: sem_post(cbuff->sem_free) after the read.
FreeAfterRead(f) == f + 1

\* read_buffer: sem_wait(used) fails with errno e: sem_post(used), return -1.
\* EINTR means the SIGINT handler ran.  Reading a header, main continues on
\* EINTR and otherwise detaches with close_cbuff(cbuff, false) and exits with
\* failure; print_solution_string and skip_solution just return to the loop.
RbWaitFail(e) ==
    /\ spc = "rb_wait"
    /\ fails < budget.fails
    /\ fails' = fails + 1
    /\ sem_used' = UsedAfterFailedWait(sem_used)
    /\ errno' = e
    /\ quit' = QuitAfter(e, quit)
    /\ spc' = IF ctx = "hdr" /\ e # "EINTR" THEN "failed" ELSE "loop"
    /\ UNCHANGED <<shm, sem_free, sem_mutex, names, more, gen, ctx, size, si,
                   min_deletions, rdata, colorable, calls, okCalls,
                   callers, wlog, rlog, fresh, budget>>

\* data = cbuff->shm->data[cbuff->shm->read_idx++].
RbRead ==
    /\ spc = "rb_read"
    /\ \E v \in (IF read_idx \in Slots THEN {data[read_idx]} ELSE OobLoad(read_idx)) :
          /\ rdata' = v
          /\ rlog' = Append(rlog, [v |-> v, hdr |-> (ctx = "hdr"),
                                   w |-> WordIn(read_idx)])
    /\ fresh' = [s \in Slots |-> fresh[s] /\ s # read_idx]
    /\ read_idx' = read_idx + 1
    /\ spc' = "rb_mod"
    /\ UNCHANGED <<halt, data, write_idx, sems, names, more, gen, ctx, size, si,
                   min_deletions, errno, quit, colorable, calls, okCalls,
                   callers, wlog, fails, budget>>

\* cbuff->shm->read_idx %= MAX_DATA.
RbMod ==
    /\ spc = "rb_mod"
    /\ read_idx' = Wrap(read_idx)
    /\ spc' = "rb_post"
    /\ UNCHANGED <<halt, data, write_idx, sems, names, more, gen, ctx, size, si,
                   min_deletions, errno, quit, rdata, colorable, hist>>

\* sem_post(free); return data.  What the caller does with the word:
\* main (a header): deletions = size / 2; an improvement is recorded and, when
\* it is 0, reported as 3-colorable with quit = 1, otherwise its payload is
\* printed; anything else is skipped.  print_solution_string / skip_solution
\* (a payload word): next i, back to main's loop after size words.
RbPost ==
    /\ spc = "rb_post"
    /\ sem_free' = FreeAfterRead(sem_free)
    /\ snap' = IF ctx = "hdr"
               THEN [best |-> min_deletions, nout |-> Len(out), at |-> Len(rlog)]
               ELSE snap
    /\ out' = Printed(ctx, rdata, si, min_deletions, out)
    /\ IF ctx = "hdr"
       THEN /\ size' = rdata
            /\ si' = 0
            /\ IF Improves(Deletions(rdata), min_deletions)
               THEN /\ min_deletions' = Deletions(rdata)
                    /\ IF Deletions(rdata) = 0
                       THEN /\ colorable' = TRUE
                            /\ quit' = 1
                            /\ spc' = "loop"
                            /\ UNCHANGED ctx
                       ELSE /\ ctx' = "print"
                            /\ spc' = IF 0 < rdata THEN "rb_wait" ELSE "loop"
                            /\ UNCHANGED <<colorable, quit>>
               ELSE /\ ctx' = "skip"
                    /\ spc' = IF 0 < rdata THEN "rb_wait" ELSE "loop"
                    /\ UNCHANGED <<min_deletions, colorable, quit>>
       ELSE /\ si' = si + 1
            /\ spc' = IF si + 1 < size THEN "rb_wait" ELSE "loop"
            /\ UNCHANGED <<ctx, size, min_deletions, colorable, quit>>
    /\ rdata' = 0
    /\ UNCHANGED <<shm, sem_used, sem_mutex, names, rel, tlog, op, gen, errno, hist, fsort>>

\* main: cbuff->shm->halt = true.
SetHalt ==
    /\ spc = "set_halt"
    /\ halt' = TRUE
    /\ tlog' = Append(tlog, "halt")
    /\ spc' = "cl_free"
    /\ UNCHANGED <<data, write_idx, read_idx, sems, names, out, snap, rel, op,
                   gen, ctx, size, si, min_deletions, errno, quit, rdata,
                   colorable, hist, fsort>>

\* close_cbuff(server): sem_post(free).
ClFree ==
    /\ spc = "cl_free"
    /\ sem_free' = sem_free + 1
    /\ tlog' = Append(tlog, "post_free")
    /\ spc' = "cl_used"
    /\ UNCHANGED <<shm, sem_used, sem_mutex, names, out, snap, rel, op, gen,
                   ctx, size, si, min_deletions, errno, quit, rdata, colorable,
                   hist, fsort>>

\* close_cbuff(server): sem_post(used).
ClUsed ==
    /\ spc = "cl_used"
    /\ sem_used' = sem_used + 1
    /\ tlog' = Append(tlog, "post_used")
    /\ spc' = "cl_halt"
    /\ UNCHANGED <<shm, sem_free, sem_mutex, names, out, snap, rel, op, gen,
                   ctx, size, si, min_deletions, errno, quit, rdata, colorable,
                   hist, fsort>>

\* close_cbuff(server): halt = true; then the semaphores are closed and
\* unlinked (sem_unlink removes a name that exists and fails otherwise) and
\* close_shm(shm, fd, true) unmaps, closes and unlinks the region.  Attached
\* generators keep their mappings and their semaphores.
ClDestroy ==
    /\ spc = "cl_halt"
    /\ halt' = TRUE
    /\ \E okUnmap, okClose \in BOOLEAN :
          names' = CloseShm(TRUE, okUnmap, okClose, names \ SemNames).names
    /\ tlog' = tlog \o << "halt", "unlink" >>
    /\ spc' = "closed"
    /\ UNCHANGED <<data, write_idx, read_idx, sems, out, snap, rel, op, gen,
                   ctx, size, si, min_deletions, errno, quit, rdata, colorable,
                   hist, fsort>>

Supervisor ==
    \/ Sigint \/ SupLoop
    \/ RbWaitOk \/ RbWaitFail("EINTR") \/ RbWaitFail("EINVAL")
    \/ RbRead \/ RbMod \/ RbPost
    \/ SetHalt \/ ClFree \/ ClUsed \/ ClDestroy

Next == Supervisor \/ \E p \in 1..WideProd : Generator(p)

Spec == Init /\ [][Next]_vars

WideSpec == WideInit /\ [][Next]_vars

\* Runs in which no sem_wait fails and no attach fails: the same processes
\* without the failure branches, with room for a second call, so that a
\* generator finds the ring full.
QuietCalls == MaxCalls + 1

QuietInit == Created(NProd, QuietCalls, 0)

QuietGenerator(p) ==
    \/ GenLoop(p)
    \/ AsMutexOk(p) \/ AsLoop(p) \/ AsFreeOk(p)
    \/ AsWrite(p) \/ AsInc(p) \/ AsMod(p) \/ AsUsed(p) \/ AsExit(p)

\* The steps the supervisor process takes itself (SIGINT comes from outside).
SupervisorRuns ==
    \/ SupLoop
    \/ RbWaitOk \/ RbRead \/ RbMod \/ RbPost
    \/ SetHalt \/ ClFree \/ ClUsed \/ ClDestroy

QuietSupervisor == Sigint \/ SupervisorRuns

QuietNext == QuietSupervisor \/ \E p \in 1..WideProd : QuietGenerator(p)

QuietSpec == QuietInit /\ [][QuietNext]_vars

\* The same runs under the scheduler: a process that can take a step
\* eventually takes one.  A sem_wait is a step only while the semaphore is
\* positive; nothing is assumed about who wins mutex.
FairSpec ==
    /\ QuietSpec
    /\ WF_vars(SupervisorRuns)
    /\ \A p \in 1..WideProd : WF_vars(QuietGenerator(p))

-----------------------------------------------------------------------------
(* The generator's loop up to the call of add_solution, statement by       *)
(* statement, for generators started with one of several graphs: candidate *)
(* colourings, their conflicting edges and the acceptance threshold.       *)

\* Graphs given as argv: one edge, a loop, a path, a triangle, and nine edges
\* on three nodes (eight times 1-4 and once 4-5), which a colouring can make
\* all conflicting.
Graphs ==
    { Graph,
      << <<2, 2>> >>,
      << <<3, 4>>, <<4, 6>> >>,
      << <<0, 1>>, <<1, 2>>, <<2, 0>> >>,
      << <<1, 4>>, <<1, 4>>, <<1, 4>>, <<1, 4>>, <<1, 4>>, <<1, 4>>, <<1, 4>>,
         <<1, 4>>, <<4, 5>> >> }

\* get_deletion_edges: for every edge, in order, whose two nodes have the same
\* colour, the two node ids are appended to buffer and size is incremented;
\* the state of the loop after the edges i .. edge_count have been visited
\* starting from r.
RECURSIVE DeletionPass(_, _, _)
DeletionPass(g, i, r) ==
    IF i > Len(g.edges) THEN r
    ELSE DeletionPass(g, i + 1,
            IF g.color[g.edges[i][1]] = g.color[g.edges[i][2]]
            THEN [buffer |-> r.buffer \o << g.edges[i][1], g.edges[i][2] >>,
                  size |-> r.size + 1]
            ELSE r)

GetDeletionEdges(g) == DeletionPass(g, 1, [buffer |-> << >>, size |-> 0])

\* while (!halt) color_randomly(graph): nodes[i].color = rand() % 3.
ColorRandomly(p) ==
    /\ p \in Producers
    /\ pc[p] = "gen"
    /\ ~halt
    /\ calls < budget.calls
    /\ \E c \in [NodeIds(graph[p].edges) -> 0..2] :
          graph' = [graph EXCEPT ![p].color = c]
    /\ pc' = [pc EXCEPT ![p] = "colored"]
    /\ UNCHANGED <<shm, sems, names, more, edges, idx, call, acct, sup, hist>>

\* edge_count = get_deletion_edges(graph, buffer); above MIN_BOUNDARY the loop
\* continues, otherwise add_solution(cbuff, buffer, edge_count * 2) is called.
GenSubmit(p) ==
    /\ p \in Producers
    /\ pc[p] = "colored"
    /\ LET r == GetDeletionEdges(graph[p])
       IN IF Submits(r.size)
          THEN /\ edges' = [edges EXCEPT ![p] = SubSeq(r.buffer, 1, r.size * 2)]
               /\ calls' = calls + 1
               /\ call' = [call EXCEPT ![p] = calls + 1]
               /\ callers' = IF call[p] = 0 THEN callers + 1 ELSE callers
               /\ pc' = [pc EXCEPT ![p] = "as_mutex"]
          ELSE /\ pc' = [pc EXCEPT ![p] = "gen"]
               /\ UNCHANGED <<edges, calls, call, callers>>
    /\ UNCHANGED <<shm, sems, names, more, idx, acct, graph, sup, okCalls, wlog,
                   rlog, fresh, fails, budget>>

\* The region as open_cbuff(true) leaves it and NProd generators, each
\* started with one of the graphs.
GraphInit ==
    /\ halt = FALSE
    /\ data = [s \in Slots |-> 0]
    /\ write_idx = 0
    /\ read_idx = 0
    /\ sem_free = MAX_DATA
    /\ sem_used = 0
    /\ sem_mutex = 1
    /\ names = AllNames
    /\ op = << >>
    /\ graph \in [1..NProd -> {NewGraph(g) : g \in Graphs}]
    /\ Locals(NProd, NProd, 0)
    /\ NoSort

GraphNext == \E p \in 1..WideProd : ColorRandomly(p) \/ GenSubmit(p)

GraphSpec == GraphInit /\ [][GraphNext]_vars

-----------------------------------------------------------------------------
(* open_cbuff and close_cbuff call by call: NLife processes, each either   *)
(* a server (the supervisor's open_cbuff(true)) or a client (a             *)
(* generator's open_cbuff(false)), start with any set of names left in the *)
(* namespace.  A call is one action; the rollback of a failed call is      *)
(* process-local up to the names it removes and is part of that action.   *)
(* Every call may fail for a reason of its own (EMFILE, ENOMEM, ...);     *)
(* shm_open without O_CREAT and sem_open without O_CREAT need the name,   *)
(* sem_open with O_CREAT | O_EXCL needs the name to be absent, and        *)
(* shm_unlink / sem_unlink remove the name when it exists.                *)

\* A process about to call open_cbuff(server).  fd, shm, sem: the descriptor,
\* the mapping and the semaphore handles it holds.  History: had, whether
\* the shared memory name existed at its shm_open; made, the objects this call created
\* that still exist; unl, the names it removed; reset, whether it changed
\* read_idx, write_idx or halt of a region that existed; shmret and ret, what
\* open_shm and open_cbuff returned; cs, its last close_shm call; cc, its
\* close_cbuff call: what it returned and whether its sem_close and
\* sem_unlink calls all returned 0.
NewCall(server) ==
    [pc |-> "shm_open", server |-> server, fd |-> FALSE, shm |-> FALSE,
     sem |-> {}, had |-> FALSE, made |-> {}, unl |-> {}, reset |-> FALSE,
     shmret |-> "none", ret |-> "none",
     cs |-> [status |-> TRUE, steps |-> << >>],
     cc |-> [status |-> "none", semok |-> TRUE]]

LifeProcs == DOMAIN op

\* The processes after process p changed to r and the names x were removed:
\* the objects under these names are gone, whoever had created them.
After(p, r, x) ==
    [q \in DOMAIN op |->
        LET o == IF q = p THEN r ELSE op[q]
        IN [o EXCEPT !.made = @ \ x]]

\* open_shm: *fd = shm_open(SHM_NAME, flags, 0600), flags with O_CREAT (and
\* without O_EXCL) for the server; on -1 open_shm and open_cbuff return NULL.
OpShmOpen(p, ok) ==
    /\ p \in LifeProcs
    /\ op[p].pc = "shm_open"
    /\ (ok /\ ~op[p].server) => "shm" \in names
    /\ IF ok
       THEN /\ names' = IF op[p].server THEN names \cup {"shm"} ELSE names
            /\ op' = After(p, [op[p] EXCEPT
                                 !.had = "shm" \in names,
                                 !.fd = TRUE,
                                 !.made = IF op[p].server THEN {"shm"} \ names ELSE {},
                                 !.pc = IF op[p].server THEN "ftruncate" ELSE "mmap"],
                           {})
       ELSE /\ names' = names
            /\ op' = After(p, [op[p] EXCEPT !.had = "shm" \in names, !.shmret = "NULL",
                                            !.ret = "NULL", !.pc = "done"], {})
    /\ UNCHANGED <<shm, sems, out, snap, rel, tlog, gen, sup, hist, fsort>>

\* open_shm (server): ftruncate; on failure shm_unlink, close, return NULL.
\* A newly created object is zero-filled.
OpFtruncate(p, ok) ==
    /\ p \in LifeProcs
    /\ op[p].pc = "ftruncate"
    /\ IF ok
       THEN /\ op' = After(p, [op[p] EXCEPT !.pc = "mmap"], {})
            /\ IF "shm" \in op[p].made
               THEN /\ halt' = FALSE
                    /\ write_idx' = 0
                    /\ read_idx' = 0
               ELSE UNCHANGED <<halt, write_idx, read_idx>>
            /\ UNCHANGED names
       ELSE /\ names' = ShmUnlinked(names)
            /\ op' = After(p, [op[p] EXCEPT !.unl = @ \cup (names \cap {"shm"}),
                                            !.fd = FALSE, !.shmret = "NULL",
                                            !.ret = "NULL", !.pc = "done"],
                           {"shm"})
            /\ UNCHANGED <<halt, write_idx, read_idx>>
    /\ UNCHANGED <<data, sems, out, snap, rel, tlog, gen, sup, hist, fsort>>

\* An open_shm that initialises the field whoever calls it.
InitFieldAlways(server, old, new) == new

\* A field of the region after open_shm's mmap succeeded: if (server)
\* shm->field = new; a client leaves it as it is.
InitField(server, old, new) == IF server THEN new ELSE old

\* open_shm: mmap; on MAP_FAILED shm_unlink, close, return NULL (server or
\* not); otherwise the server resets read_idx, write_idx and halt.
OpMmap(p, ok) ==
    /\ p \in LifeProcs
    /\ op[p].pc = "mmap"
    /\ IF ok
       THEN /\ op' = After(p, [op[p] EXCEPT
                                 !.shm = TRUE, !.shmret = "shm",
                                 !.reset = /\ "shm" \notin op[p].made
                                           /\ <<InitField(op[p].server, read_idx, 0),
                                                InitField(op[p].server, write_idx, 0),
                                                InitField(op[p].server, halt, FALSE)>>
                                                # <<read_idx, write_idx, halt>>,
                                 !.pc = "sem_free"], {})
            /\ read_idx' = InitField(op[p].server, read_idx, 0)
            /\ write_idx' = InitField(op[p].server, write_idx, 0)
            /\ halt' = InitField(op[p].server, halt, FALSE)
            /\ UNCHANGED names
       ELSE /\ names' = ShmUnlinked(names)
            /\ op' = After(p, [op[p] EXCEPT !.unl = @ \cup (names \cap {"shm"}),
                                            !.fd = FALSE, !.shmret = "NULL",
                                            !.ret = "NULL", !.pc = "done"],
                           {"shm"})
            /\ UNCHANGED <<halt, write_idx, read_idx>>
    /\ UNCHANGED <<data, sems, out, snap, rel, tlog, gen, sup, hist, fsort>>

\* sem_open(name, O_CREAT | O_EXCL, 0600, value) can succeed only when the
\* name is absent; sem_open(name, 0) only when it exists.
CanOpen(server, name) == IF server THEN name \notin names ELSE name \in names

\* The process after a rollback that closed the handles c, removed the names
\* x and, when withShm, called close_shm with result r; it returns NULL.
RolledBack(o, c, x, withShm, r) ==
    [o EXCEPT !.sem = @ \ c,
              !.unl = @ \cup (x \cap names)
                        \cup (IF withShm /\ o.server THEN names \cap {"shm"} ELSE {}),
              !.fd = IF withShm THEN FALSE ELSE @,
              !.shm = IF withShm THEN FALSE ELSE @,
              !.cs = IF withShm THEN [status |-> r.status, steps |-> r.steps] ELSE @,
              !.ret = "NULL",
              !.pc = "done"]

\* open_cbuff: sem_free = sem_open(SEM_FREE, ...).  On failure the server
\* calls close_shm(shm, fd, server); the client only frees cbuff.
OpSemFree(p, ok) ==
    /\ p \in LifeProcs
    /\ op[p].pc = "sem_free"
    /\ ok => CanOpen(op[p].server, "free")
    /\ IF ok
       THEN /\ names' = names \cup {"free"}
            /\ sem_free' = IF op[p].server THEN MAX_DATA ELSE sem_free
            /\ op' = After(p, [op[p] EXCEPT
                                 !.sem = @ \cup {"free"},
                                 !.made = IF op[p].server THEN @ \cup {"free"} ELSE @,
                                 !.pc = "sem_used"], {})
       ELSE /\ \E okUnmap, okClose \in BOOLEAN :
                  LET r == CloseShm(op[p].server, okUnmap, okClose, names)
                  IN /\ names' = IF op[p].server THEN r.names ELSE names
                     /\ op' = After(p, RolledBack(op[p], {}, {}, op[p].server, r),
                                    names \ names')
            /\ UNCHANGED sem_free
    /\ UNCHANGED <<shm, sem_used, sem_mutex, out, snap, rel, tlog, gen, sup, hist, fsort>>

\* open_cbuff: sem_used = sem_open(SEM_USED, ...).  On failure the server
\* closes and unlinks free and calls close_shm; the client closes free.
OpSemUsed(p, ok) ==
    /\ p \in LifeProcs
    /\ op[p].pc = "sem_used"
    /\ ok => CanOpen(op[p].server, "used")
    /\ IF ok
       THEN /\ names' = names \cup {"used"}
            /\ sem_used' = IF op[p].server THEN 0 ELSE sem_used
            /\ op' = After(p, [op[p] EXCEPT
                                 !.sem = @ \cup {"used"},
                                 !.made = IF op[p].server THEN @ \cup {"used"} ELSE @,
                                 !.pc = "sem_mutex"], {})
       ELSE /\ \E okUnmap, okClose \in BOOLEAN :
                  LET x == IF op[p].server THEN {"free"} ELSE {}
                      r == CloseShm(op[p].server, okUnmap, okClose, names \ x)
                  IN /\ names' = IF op[p].server THEN r.names ELSE names
                     /\ op' = After(p, RolledBack(op[p], {"free"}, x, op[p].server, r),
                                    names \ names')
            /\ UNCHANGED sem_used
    /\ UNCHANGED <<shm, sem_free, sem_mutex, out, snap, rel, tlog, gen, sup, hist, fsort>>

\* open_cbuff: sem_mutex = sem_open(SEM_MUTEX, ...).  On failure the server
\* closes and unlinks free, closes and unlinks free a second time (sem_close
\* of a closed handle is undefined: it returns, or the process dies there) and
\* calls close_shm; used is neither closed nor unlinked.  The client closes
\* free and used.  On success open_cbuff returns cbuff.
OpSemMutex(p, ok) ==
    /\ p \in LifeProcs
    /\ op[p].pc = "sem_mutex"
    /\ ok => CanOpen(op[p].server, "mutex")
    /\ IF ok
       THEN /\ names' = names \cup {"mutex"}
            /\ sem_mutex' = IF op[p].server THEN 1 ELSE sem_mutex
            /\ op' = After(p, [op[p] EXCEPT
                                 !.sem = @ \cup {"mutex"},
                                 !.made = IF op[p].server THEN @ \cup {"mutex"} ELSE @,
                                 !.ret = "cbuff",
                                 !.pc = "opened"], {})
       ELSE /\ IF op[p].server
               THEN \E okUnmap, okClose, dies \in BOOLEAN :
                       LET r == CloseShm(TRUE, okUnmap, okClose, names \ {"free"})
                       IN IF dies
                          THEN /\ names' = names \ {"free"}
                               /\ op' = After(p, [op[p] EXCEPT
                                                    !.sem = @ \ {"free"},
                                                    !.unl = @ \cup (names \cap {"free"}),
                                                    !.ret = "killed",
                                                    !.pc = "done"],
                                              names \cap {"free"})
                          ELSE /\ names' = r.names
                               /\ op' = After(p, RolledBack(op[p], {"free"}, {"free"}, TRUE, r),
                                              names \ names')
               ELSE /\ names' = names
                    /\ op' = After(p, RolledBack(op[p], {"free", "used"}, {}, FALSE,
                                                 op[p].cs), {})
            /\ UNCHANGED sem_mutex
    /\ UNCHANGED <<shm, sem_free, sem_used, out, snap, rel, tlog, gen, sup, hist, fsort>>

\* What close_cbuff returns: false when close_shm returned false, true
\* otherwise; the results of sem_close and sem_unlink are not looked at.
CloseCbuffStatus(semok, shmok) == IF ~shmok THEN "false" ELSE "true"

\* close_cbuff(cbuff, server) of a process whose open_cbuff returned cbuff:
\* the server posts free and used and sets halt; the handles are closed
\* (okSem: the three sem_close calls return 0); the server unlinks the three
\* semaphore names (sem_unlink fails when the name is absent);
\* close_shm(shm, fd, server).
OpClose(p, okUnmap, okClose, okSem) ==
    /\ p \in LifeProcs
    /\ op[p].pc = "opened"
    /\ LET x == IF op[p].server THEN SemNames ELSE {}
           r == CloseShm(op[p].server, okUnmap, okClose, names \ x)
           semok == okSem /\ x \subseteq names
       IN /\ names' = r.names
          /\ op' = After(p, [op[p] EXCEPT
                               !.sem = {},
                               !.unl = @ \cup (names \ r.names),
                               !.fd = FALSE,
                               !.shm = FALSE,
                               !.cs = [status |-> r.status, steps |-> r.steps],
                               !.cc = [status |-> CloseCbuffStatus(semok, r.status),
                                       semok |-> semok],
                               !.pc = "done"],
                         names \ r.names)
    /\ IF op[p].server
       THEN /\ sem_free' = sem_free + 1
            /\ sem_used' = sem_used + 1
            /\ halt' = TRUE
       ELSE UNCHANGED <<sem_free, sem_used, halt>>
    /\ UNCHANGED <<data, write_idx, read_idx, sem_mutex, out, snap, rel, tlog,
                   gen, sup, hist, fsort>>

Life(p) ==
    \/ OpShmOpen(p, TRUE) \/ OpShmOpen(p, FALSE)
    \/ OpFtruncate(p, TRUE) \/ OpFtruncate(p, FALSE)
    \/ OpMmap(p, TRUE) \/ OpMmap(p, FALSE)
    \/ OpSemFree(p, TRUE) \/ OpSemFree(p, FALSE)
    \/ OpSemUsed(p, TRUE) \/ OpSemUsed(p, FALSE)
    \/ OpSemMutex(p, TRUE) \/ OpSemMutex(p, FALSE)
    \/ \E okUnmap, okClose, okSem \in BOOLEAN : OpClose(p, okUnmap, okClose, okSem)

\* Before the calls: any names may be left over from an earlier run, with the
\* region of a halted run and semaphores at their initial values; no
\* generator slot, nothing read or written.  The processes differ only in
\* their role, so the first k are servers and the others clients.
LifeInit ==
    /\ names \in SUBSET AllNames
    /\ \E k \in 0..NLife : op = [p \in 1..NLife |-> NewCall(p <= k)]
    /\ halt = ("shm" \in names)
    /\ data = [s \in Slots |-> 0]
    /\ write_idx = (IF "shm" \in names THEN MAX_DATA - 1 ELSE 0)
    /\ read_idx = (IF "shm" \in names THEN MAX_DATA - 1 ELSE 0)
    /\ sem_free = (IF "free" \in names THEN MAX_DATA ELSE 0)
    /\ sem_used = 0
    /\ sem_mutex = (IF "mutex" \in names THEN 1 ELSE 0)
    /\ graph = << >>
    /\ Locals(0, 0, 0)
    /\ NoSort

LifeNext == \E p \in 1..NLife : Life(p)

LifeSpec == LifeInit /\ [][LifeNext]_vars

-----------------------------------------------------------------------------
(* Vocabulary of the properties.                                           *)

\* p is inside add_solution.
Inside(p) == pc[p] # "gen"

\* p is between its acquisition of mutex and its release of it.
Holding(p) == pc[p] \notin {"gen", "as_mutex"}

\* Slot transitions in flight: a process has completed its wait on one
\* counting semaphore and has not yet posted the other.
InFlight ==
    Cardinality({p \in Producers : pc[p] \in {"as_write", "as_inc", "as_mod", "as_used"}})
    + (IF spc \in {"rb_read", "rb_mod", "rb_post"} THEN 1 ELSE 0)

\* Words written into the ring and not (yet) read by the supervisor.
Unread == Len(wlog) - Cardinality({j \in 1..Len(rlog) : rlog[j].w > 0})

\* p waits on a semaphore whose value is 0.
Blocked(p) ==
    \/ pc[p] = "as_mutex" /\ sem_mutex = 0
    \/ pc[p] = "as_free" /\ sem_free = 0

\* The supervisor has left its loop: halt is set and close_cbuff(server) runs
\* or has run.
Halting == spc \in {"set_halt", "cl_free", "cl_used", "cl_halt", "closed"}

\* close_cbuff(server) has posted free and used.
WakeupsPosted == spc \in {"cl_halt", "closed"}

\* The supervisor waits for a header and nothing is left to read or in progress.
Drained ==
    /\ spc = "rb_wait" /\ ctx = "hdr" /\ sem_used = 0
    /\ \A p \in Producers : ~Inside(p)

-----------------------------------------------------------------------------
\* C1: the words written while halt is false form whole frames: a word with
\* index i > 0 directly follows word i - 1 of the same call, and a header
\* directly follows the last word of the frame before it.
FramesIndivisible ==
    \A j \in 1..Len(wlog) :
        ~wlog[j].h =>
            /\ wlog[j].i > 0 =>
                  /\ j > 1
                  /\ wlog[j - 1].c = wlog[j].c
                  /\ wlog[j - 1].i = wlog[j].i - 1
            /\ (wlog[j].i = 0 /\ j > 1) => wlog[j - 1].i = wlog[j - 1].n

\* C2: mutex is 0 or 1 and at most one generator is between acquiring and
\* releasing it.
MutexBinary ==
    /\ sem_mutex \in {0, 1}
    /\ Cardinality({p \in Producers : Holding(p)}) <= 1

\* C3: with a single generator process, the j-th word the supervisor reads is
\* the j-th word written, read in the same role (header or payload), for
\* every word of a frame whose add_solution returned true.
SingleProducerOrder ==
    callers <= 1 =>
        \A j \in 1..Len(rlog) :
            (j <= Len(wlog) /\ wlog[j].c \in okCalls) =>
                /\ rlog[j].v = wlog[j].v
                /\ rlog[j].hdr = (wlog[j].i = 0)

\* C4: once the buffer is drained, every value has been read as a payload
\* word as often as it was written as a payload word by a call that returned
\* true.
NoLossNoDuplication ==
    Drained =>
        \A v \in {wlog[j].v : j \in 1..Len(wlog)} \cup {rlog[j].v : j \in 1..Len(rlog)} :
            Cardinality({j \in 1..Len(rlog) : ~rlog[j].hdr /\ rlog[j].v = v})
            = Cardinality({j \in 1..Len(wlog) :
                             wlog[j].i > 0 /\ wlog[j].c \in okCalls /\ wlog[j].v = v})

\* C5: at most MAX_DATA written words are unread at any time.
CapacityBound == Unread <= MAX_DATA

\* C6: free + used is MAX_DATA minus the slot transitions in flight.
SemaphoreSum == sem_free + sem_used = MAX_DATA - InFlight

\* C7: with no slot transition in flight (and before close_cbuff posts its
\* wake-ups), used is the number of unread words and free is MAX_DATA minus
\* that number.
SemaphoresTrackContents ==
    (InFlight = 0 /\ spc \notin {"cl_used", "cl_halt", "closed"}) =>
        (sem_used = Unread /\ sem_free = MAX_DATA - Unread)

\* C8: both indexes are in 0..MAX_DATA-1 in every state of the shared region.
IndexBounds == write_idx \in Slots /\ read_idx \in Slots

\* C9: once the wake-ups are posted, a generator inside add_solution is not
\* left waiting: there is no state in which every generator still inside
\* add_solution waits on a semaphore whose value is 0 (nothing will post it).
HaltUnblocksWaiters ==
    ~ /\ WakeupsPosted
      /\ \E p \in Producers : Inside(p)
      /\ \A p \in Producers : Inside(p) => Blocked(p)

\* C10: when the last header the supervisor read is 0, it has reported the
\* graph 3-colorable, quit is set, and it is in its loop test or in the halting
\* sequence, not in another read_buffer call.
ZeroCostTermination ==
    size = 0 => (colorable /\ quit = 1 /\ (spc = "loop" \/ Halting))

\* A generator submitted a header 0, the supervisor read it and has closed.
ZeroCostWitness ==
    /\ size = 0 /\ colorable /\ spc = "closed"
    /\ Len(rlog) = 1 /\ rlog[1].w = 1 /\ wlog[1].c \in okCalls

-----------------------------------------------------------------------------
(* Frames as the supervisor consumes them.                                 *)

\* The written word that the j-th read returned (rlog[j].w > 0).
Written(j) == wlog[rlog[j].w]

\* The h-th read returned the first word of a frame.
ReadsHeader(h) ==
    /\ h \in 1..Len(rlog)
    /\ rlog[h].w > 0
    /\ Written(h).i = 0

\* The reads h+1 .. h+k returned payload words 1 .. k of the frame whose
\* first word the h-th read returned.
ReadsPayload(h, k) ==
    /\ h + k <= Len(rlog)
    /\ \A j \in 1..k :
          /\ rlog[h + j].w > 0
          /\ Written(h + j).c = Written(h).c
          /\ Written(h + j).i = j

\* skip_solution / print_solution_string has returned to main's loop.
Returned(c) == ctx = c /\ spc = "loop"

\* C11: when skip_solution has returned for a frame whose header did not
\* improve on the best, the supervisor has consumed exactly the size payload
\* words of that frame since the header, has printed nothing and has left
\* min_deletions as it was.
SkipPath ==
    (Returned("skip") /\ ReadsHeader(snap.at)) =>
        /\ Len(rlog) = snap.at + size
        /\ ReadsPayload(snap.at, size)
        /\ Len(out) = snap.nout
        /\ min_deletions = snap.best

\* C12: when print_solution_string has returned for a frame with header
\* size > 0 that improved on the best, min_deletions is size / 2, exactly the
\* size payload words of that frame were consumed, and they were printed as
\* size / 2 edges " a-b", in the order in which the generator wrote them.
ImprovedFrameReported ==
    (Returned("print") /\ ReadsHeader(snap.at)) =>
        /\ min_deletions = Deletions(size)
        /\ Len(rlog) = snap.at + size
        /\ ReadsPayload(snap.at, size)
        /\ Len(out) = snap.nout + 1
        /\ out[Len(out)].d = Deletions(size)
        /\ Len(out[Len(out)].e) = 2 * Deletions(size)
        /\ \A j \in 1..Len(out[Len(out)].e) :
              /\ snap.at + j <= Len(rlog)
              /\ rlog[snap.at + j].w > 0
              /\ out[Len(out)].e[j].v = Written(snap.at + j).v
              /\ out[Len(out)].e[j].sep = IF j % 2 = 1 THEN " " ELSE "-"

\* The position in rlog at which the header of call c was read as a header,
\* 0 when it has not been.
HeaderRead(c) ==
    IF \E j \in 1..Len(rlog) : rlog[j].hdr /\ ReadsHeader(j) /\ Written(j).c = c
    THEN CHOOSE j \in 1..Len(rlog) : rlog[j].hdr /\ ReadsHeader(j) /\ Written(j).c = c
    ELSE 0

\* C13: frames are read in the order in which their writers released mutex:
\* when the header of a call has been read, the header of every call that
\* returned true before it has been read earlier.
FifoAcrossProducers ==
    \A a, b \in 1..Len(rel) :
        (a < b /\ HeaderRead(rel[b]) > 0) =>
            (HeaderRead(rel[a]) > 0 /\ HeaderRead(rel[a]) < HeaderRead(rel[b]))

-----------------------------------------------------------------------------
(* The supervisor's shutdown path.                                         *)

\* The positions in tlog of step e of the halting sequence.
Steps(e) == {k \in 1..Len(tlog) : tlog[k] = e}

\* C14: halt is set before the wake-up posts, free and used are each posted
\* before the names are removed, and the names are removed once, by the
\* supervisor's close_cbuff, never while halt is false.
HaltingSequence ==
    /\ \A k \in Steps("post_free") \cup Steps("post_used") \cup Steps("unlink") :
          \E j \in Steps("halt") : j < k
    /\ \A k \in Steps("unlink") :
          /\ \E j \in Steps("post_free") : j < k
          /\ \E j \in Steps("post_used") : j < k
    /\ Cardinality(Steps("unlink")) <= 1
    /\ Steps("unlink") # {} => names = {}
    /\ names # AllNames => (halt /\ Steps("unlink") # {})

\* The steps the supervisor takes by itself: neither a signal nor a failing
\* wait, and RbWaitOk only when used is positive.
SupervisorStep ==
    \/ SupLoop \/ RbWaitOk \/ RbRead \/ RbMod \/ RbPost
    \/ SetHalt \/ ClFree \/ ClUsed \/ ClDestroy

\* C15: once SIGINT has set quit, the supervisor reaches the end of
\* close_cbuff(server) without the help of a generator: until then it always
\* has a step of its own to take (it is never left blocked in sem_wait(used)
\* on a semaphore that only a generator would post, nor exited without
\* halting).
InterruptLeadsToHalting ==
    (quit = 1 /\ spc # "closed") => ENABLED SupervisorStep

\* C16: when the supervisor has exited after a header read that failed with
\* an errno other than EINTR, halt is true, free and used were posted and no
\* name is left in the namespace.
FatalReadTearsDown ==
    spc = "failed" =>
        /\ halt
        /\ Steps("post_free") # {} /\ Steps("post_used") # {}
        /\ names = {}

-----------------------------------------------------------------------------
(* Creation, attachment and destruction of the named resources.            *)

\* C17: a client (open_cbuff(false), failed at any stage or not, and
\* close_cbuff(false)) removes no name.
WorkersNeverUnlink ==
    \A p \in LifeProcs : ~op[p].server => op[p].unl = {}

\* C18: when the shared memory name exists at the server's shm_open, open_shm
\* returns NULL.
CreateFailsIfExists ==
    \A p \in LifeProcs :
        (op[p].server /\ op[p].had /\ op[p].shmret # "none") =>
            op[p].shmret = "NULL"

\* C19: when open_cbuff(true) has returned NULL, no object that this call
\* created is left under its name.
FailedCreateRollsBack ==
    \A p \in LifeProcs :
        (op[p].server /\ op[p].ret = "NULL") => op[p].made = {}

\* The calls close_shm makes when nothing stops it.
CloseShmCalls(server) ==
    IF server THEN << "munmap", "close", "shm_unlink" >> ELSE << "munmap", "close" >>

\* C20: every close_shm call attempted munmap, close and, for the server
\* only, shm_unlink, whatever failed before; it returned false exactly when
\* one of these calls failed.
CloseShmBestEffort ==
    \A p \in LifeProcs :
        op[p].cs.steps # << >> =>
            /\ [k \in DOMAIN op[p].cs.steps |-> op[p].cs.steps[k].call]
                  = CloseShmCalls(op[p].server)
            /\ op[p].cs.status = (\A k \in DOMAIN op[p].cs.steps : op[p].cs.steps[k].ok)
            /\ ~op[p].server => "shm" \notin op[p].unl

\* A server's close_shm whose munmap failed went on to close and shm_unlink
\* and returned false; a client's close_shm has run too.
CloseShmWitness ==
    /\ \E p \in LifeProcs :
          /\ op[p].server
          /\ Len(op[p].cs.steps) = 3
          /\ ~op[p].cs.steps[1].ok
          /\ op[p].cs.steps[3].ok
          /\ ~op[p].cs.status
    /\ \E p \in LifeProcs :
          /\ ~op[p].server
          /\ Len(op[p].cs.steps) = 2
          /\ op[p].unl = {}

\* A client is inside open_cbuff(false) and takes a step of it.
AttachStep(p) ==
    /\ ~op[p].server
    /\ op[p].pc \in {"shm_open", "mmap", "sem_free", "sem_used", "sem_mutex"}
    /\ op'[p].pc # op[p].pc

-----------------------------------------------------------------------------
(* add_solution call by call.                                              *)

\* The words call c has written, in the order in which it wrote them.
CallWords(c) == SelectSeq(wlog, LAMBDA e : e.c = c)

\* Call c has written its header and then its n payload words, once each and
\* in order.
WholeFrame(c) ==
    LET ws == CallWords(c)
    IN /\ Len(ws) > 0
       /\ Len(ws) = 1 + ws[1].n
       /\ \A k \in 1..Len(ws) : ws[k].i = k - 1

\* C22: a call that is about to return true (its loop is over, mutex not yet
\* released) has waited on free and posted used 1 + size times each, has
\* written size and then edges[0..size-1], and write_idx is (1 + size) mod
\* MAX_DATA past its value when the call acquired mutex; a call that has
\* returned true, and so released mutex, has written its whole frame.
FrameTransacted ==
    /\ \A p \in Producers :
          pc[p] = "as_exit" =>
              /\ acct[p].w = 1 + Len(edges[p])
              /\ acct[p].u = 1 + Len(edges[p])
              /\ WholeFrame(call[p])
              /\ \A k \in 1..Len(CallWords(call[p])) :
                    CallWords(call[p])[k].v = FrameWord(edges[p], k - 1)
              /\ write_idx = (acct[p].at + 1 + Len(edges[p])) % MAX_DATA
    /\ \A c \in okCalls : WholeFrame(c)
\* add_solution of generator p returns false in this step.
ReturnsFalse(p) == call[p] # 0 /\ call'[p] = 0

\* C23: when add_solution returns false after it has written a word of its
\* frame, halt is true at that moment.
PartialFrameOnlyAtTeardown ==
    [][\A p \in Producers :
          (ReturnsFalse(p) /\ CallWords(call[p]) # << >>) => halt]_vars
\* sem_wait(mutex) of generator p returns -1 in this step.
MutexWaitFails(p) ==
    pc[p] = "as_mutex" /\ pc'[p] # "as_mutex" /\ fails' = fails + 1

\* C24: when sem_wait(mutex) fails, add_solution returns false, the call has
\* written no word, and data, write_idx, read_idx, free and used are as
\* they were.
FailedMutexWritesNothing ==
    [][\A p \in Producers :
          MutexWaitFails(p) =>
              /\ ReturnsFalse(p)
              /\ CallWords(call[p]) = << >>
              /\ UNCHANGED <<data, write_idx, read_idx, sem_free, sem_used>>]_vars

\* A call has ended in a failed sem_wait(mutex): mutex was posted without
\* having been acquired, and nothing was written.
FailedMutexWitness ==
    /\ calls > 0 /\ fails > 0 /\ sem_mutex = 2
    /\ \A p \in Producers : pc[p] = "gen"
    /\ wlog = << >> /\ sem_free = MAX_DATA /\ sem_used = 0
\* Generator p tests halt at the top of an iteration and finds it set.
HaltObserved(p) == pc[p] = "as_loop" /\ halt /\ pc'[p] # "as_loop"

\* C25: a generator that finds halt set at the top of an iteration posts
\* mutex once and returns false without waiting on free or writing.
HaltStopsFrame ==
    [][\A p \in Producers :
          HaltObserved(p) =>
              /\ ReturnsFalse(p)
              /\ sem_mutex' = sem_mutex + 1
              /\ UNCHANGED <<shm, sem_free, sem_used, wlog>>]_vars

\* C25: a call that acquired mutex when halt was already set has not waited
\* on free and has written no word.
NoWordAfterHalt ==
    \A p \in Producers :
        acct[p].h => (acct[p].w = 0 /\ CallWords(call[p]) = << >>)

\* C25, both parts.
HaltObservedBetweenWords == HaltStopsFrame /\ [] NoWordAfterHalt

\* A call wrote its header, the supervisor set halt, and the call returned
\* false at the check before its first payload word.
HaltObservedWitness ==
    /\ halt /\ fails = 0 /\ calls = 1 /\ okCalls = {}
    /\ Len(wlog) = 1 /\ wlog[1].n = 2
    /\ \A p \in Producers : pc[p] = "gen" /\ call[p] = 0
    /\ sem_mutex = 1
-----------------------------------------------------------------------------
(* The supervisor's loop.                                                  *)

\* C26: after a sem_wait(used) that failed with EINTR the supervisor waits at
\* most once more, and in fact never: quit is set and it is at its loop test
\* or in the halting sequence, so it does not loop on interrupted waits.
InterruptedWaitNotRetried ==
    errno = "EINTR" => (quit = 1 /\ (spc = "loop" \/ Halting))

\* The positions in rlog of the headers main has processed (the word read
\* by its own read_buffer call, once that call has returned).
HeadersProcessed == {j \in 1..snap.at : rlog[j].hdr}

\* The least element of a non-empty set of integers.
Least(S) == CHOOSE x \in S : \A y \in S : x <= y

InterruptedWaitWitness ==
    errno = "EINTR" /\ ctx # "hdr" /\ spc = "closed"
-----------------------------------------------------------------------------
(* What a generator submits.                                               *)

\* The edges of g (their positions in the edge list) whose two nodes have the
\* same colour.
Conflicts(g) == {k \in 1..Len(g.edges) : g.color[g.edges[k][1]] = g.color[g.edges[k][2]]}

\* The j-th smallest element of a set of positions.
Nth(S, j) == CHOOSE k \in S : Cardinality({m \in S : m <= k}) = j

-----------------------------------------------------------------------------
(* Who writes what.                                                        *)

\* The supervisor takes a step of read_buffer.
ReadBufferStep ==
    spc \in {"rb_wait", "rb_read", "rb_mod", "rb_post"} /\ spc' # spc

\* Generator p takes a step of add_solution.
AddSolutionStep(p) == pc[p] # "gen" /\ pc'[p] # pc[p]

\* The supervisor takes a step: of main and close_cbuff, or of its
\* open_cbuff(true) / close_cbuff(cbuff, true) taken call by call.
AggregatorStep ==
    \/ spc' # spc
    \/ \E p \in LifeProcs : op[p].server /\ op'[p].pc # op[p].pc

\* A server's ftruncate gives a shared memory object it has just created its
\* size: the region of this step is a new, zero-filled one.
FreshRegion ==
    \E p \in LifeProcs :
        op[p].pc = "ftruncate" /\ op'[p].pc = "mmap" /\ "shm" \in op[p].made

\* C29: read_buffer leaves write_idx, data, halt and mutex alone;
\* add_solution leaves read_idx and halt alone and changes write_idx and data
\* only between its sem_wait(mutex) and its sem_post(mutex); halt of a region
\* changes only from false to true and only in a step of the supervisor.
SeparationOfWriters ==
    [][/\ ReadBufferStep => UNCHANGED <<write_idx, data, halt, sem_mutex>>
       /\ \A p \in Producers :
             AddSolutionStep(p) =>
                 /\ UNCHANGED <<read_idx, halt>>
                 /\ (write_idx' # write_idx \/ data' # data) => Holding(p)
       /\ (halt' # halt /\ ~FreshRegion) =>
             (~halt /\ halt' /\ AggregatorStep)]_vars
-----------------------------------------------------------------------------
(* close_cbuff.                                                            *)

\* C30: a close_cbuff call has closed the three semaphores, has made every
\* call of close_shm and, for the server, has left no semaphore name behind;
\* it returned false whenever a sem_close, a sem_unlink or a step of close_shm
\* failed.
AggregateTeardownResult ==
    \A p \in LifeProcs :
        op[p].cc.status # "none" =>
            /\ op[p].sem = {}
            /\ Len(op[p].cs.steps) = Len(CloseShmCalls(op[p].server))
            /\ (~op[p].cc.semok \/ ~op[p].cs.status) => op[p].cc.status = "false"
-----------------------------------------------------------------------------
(* Failed attach and failed create.                                        *)

\* C31: when a client's open_cbuff(false) has returned NULL after open_shm
\* had returned the mapping (sem_open of free, used or mutex failed), the
\* process holds neither the mapping nor the descriptor nor a semaphore.
FailedAttachReleases ==
    \A p \in LifeProcs :
        (~op[p].server /\ op[p].ret = "NULL" /\ op[p].shmret = "shm") =>
            (~op[p].shm /\ ~op[p].fd /\ op[p].sem = {})

-----------------------------------------------------------------------------
(* The reader's view of the ring.                                          *)

\* C32: every word that main's read_buffer returned as a header is a word
\* that add_solution wrote with i = 0, also after a read_buffer inside
\* print_solution_string or skip_solution has failed and the loop continued.
HeadersAligned ==
    \A j \in 1..Len(rlog) : rlog[j].hdr => ReadsHeader(j)

\* C33: every word that read_buffer returned comes from a slot written since
\* that slot was last read, also after an earlier read_buffer has failed on
\* its wait and posted used.
NoStaleRead ==
    \A j \in 1..Len(rlog) : rlog[j].w > 0

\* C34: when a server's open_cbuff(true) has returned NULL and the shared
\* memory name existed at its shm_open, the call has changed neither
\* read_idx nor write_idx nor halt of that region and has not unlinked the
\* shared memory name.
FailedCreateKeepsQueue ==
    \A p \in LifeProcs :
        (op[p].server /\ op[p].had /\ op[p].ret = "NULL") =>
            (~op[p].reset /\ "shm" \notin op[p].unl)

-----------------------------------------------------------------------------
(* Progress of the ring.                                                   *)

\* The supervisor waits in read_buffer on used = 0.
ConsumerBlocked == spc = "rb_wait" /\ sem_used = 0

\* Generator p holds mutex and waits in add_solution on free = 0.
ProducerBlocked(p) == pc[p] = "as_free" /\ sem_free = 0

\* C35: while halt is false and no sem_wait has failed, the supervisor is
\* never blocked on used while a generator that holds mutex is blocked on
\* free.
NoMutualBlock ==
    (~halt /\ fails = 0) =>
        ~(ConsumerBlocked /\ \E p \in Producers : ProducerBlocked(p))

\* A generator holding mutex is blocked on a full ring, in its second call,
\* before halt and without a failed wait; the supervisor is in read_buffer
\* and not blocked.
NoMutualBlockWitness ==
    /\ ~halt /\ fails = 0
    /\ \E p \in Producers : ProducerBlocked(p) /\ Holding(p) /\ call[p] > 1
    /\ spc = "rb_wait" /\ ~ConsumerBlocked

\* The add_solution call c holds mutex.
Acquired(c) == \E p \in Producers : call[p] = c /\ Holding(p)

\* The supervisor has read every word of the frame of call c.
FrameRead(c) ==
    /\ WholeFrame(c)
    /\ \A j \in 1..Len(wlog) :
          wlog[j].c = c => \E k \in 1..Len(rlog) : rlog[k].w = j

\* C36: when no sem_wait fails, the processes are scheduled fairly and halt
\* stays false, every add_solution call that has acquired mutex eventually
\* has written its whole frame and returned true, and the supervisor
\* eventually has read the whole frame.
FrameSubmissionCompletes ==
    \A c \in 1..QuietCalls :
        Acquired(c) ~> (halt \/ (c \in okCalls /\ FrameRead(c)))

\* Before halt and without a failed wait, two calls have written frames that
\* together exceed the ring, have returned true, and both frames have been
\* read.
FrameSubmissionWitness ==
    /\ ~halt /\ fails = 0
    /\ Len(CallWords(1)) + Len(CallWords(2)) > MAX_DATA
    /\ \A c \in 1..2 : c \in okCalls /\ FrameRead(c)

-----------------------------------------------------------------------------
(* forksort.c: the parent process and its two children.  A line is a       *)
(* number, compared as strcmp compares the lines; a pipe holds at most     *)
(* PipeCap lines and a write to a full pipe blocks.  stdio hands a line to *)
(* the pipe at the latest in fclose or at exit, so a process leaves fclose *)
(* or exits only when all its lines are in the pipe.  A child is the same  *)
(* program: it reads its stdin to the end, sorts (with children of its     *)
(* own, which receive at most PipeCap lines each at these bounds and so    *)
(* are never held up) and prints the lines in order.                       *)

ring == <<shm, sems, names, out, snap, rel, tlog, op, gen, sup, hist>>

\* The lines at the odd positions of s (those main sends to child 1) and at
\* the even positions (child 2).
Alternate(s, par) ==
    LET pos == {i \in 1..Len(s) : i % 2 = par}
    IN [j \in 1..Cardinality(pos) |-> s[Nth(pos, j)]]

\* The merge loop on two complete child outputs: the first line is printed
\* when strcmp(first_buff, second_buff) < 0, otherwise the second.
RECURSIVE MergeLines(_, _)
MergeLines(a, b) ==
    IF a = << >> THEN b
    ELSE IF b = << >> THEN a
    ELSE IF a[1] < b[1] THEN <<a[1]>> \o MergeLines(Tail(a), b)
    ELSE <<b[1]>> \o MergeLines(a, Tail(b))

\* What a forksort process prints for the lines s.
RECURSIVE SortedLines(_)
SortedLines(s) ==
    IF Len(s) <= 1 THEN s
    ELSE MergeLines(SortedLines(Alternate(s, 1)), SortedLines(Alternate(s, 0)))

\* greater_one_line and main: no line: exit; one line: print it and exit;
\* otherwise line1 and line2 are the first two lines and main goes on.
GreaterOneLine ==
    /\ ppc = "start"
    /\ IF Len(input) = 0
       THEN ppc' = "done" /\ UNCHANGED merge
       ELSE IF Len(input) = 1
       THEN ppc' = "done" /\ merge' = [merge EXCEPT !.printed = input]
       ELSE ppc' = "fork" /\ UNCHANGED merge
    /\ UNCHANGED <<ring, input, line_count, stdin_pipe, stdout_pipe, child>>

\* run_child(&child_1); run_child(&child_2): pipes, fork, exec.
RunChild ==
    /\ ppc = "fork"
    /\ child' = [k \in 1..2 |-> [child[k] EXCEPT !.pc = "read"]]
    /\ ppc' = "write"
    /\ UNCHANGED <<ring, input, line_count, stdin_pipe, stdout_pipe, merge>>

\* The child (f1 or f2) that receives the line with this line_count: line1
\* and line2 go to f1 and f2, then line_count starts at 2 and even counts go
\* to f1.
Receiver(n) == IF n % 2 = 0 THEN 1 ELSE 2

\* fprintf(f1, line1); fprintf(f2, line2); while (getline(...) != -1)
\* fprintf(f1 or f2, buff); line_count++.  At the end of stdin the loop ends.
WriteLine ==
    /\ ppc = "write"
    /\ IF input = << >>
       THEN /\ ppc' = "close"
            /\ UNCHANGED <<input, line_count, stdin_pipe>>
       ELSE /\ Len(stdin_pipe[Receiver(line_count)]) < PipeCap
            /\ stdin_pipe' = [stdin_pipe EXCEPT ![Receiver(line_count)] =
                                  Append(@, Head(input))]
            /\ input' = Tail(input)
            /\ line_count' = line_count + 1
            /\ UNCHANGED ppc
    /\ UNCHANGED <<ring, stdout_pipe, child, merge>>

\* fclose(f1); fclose(f2).
CloseWritePipes ==
    /\ ppc = "close"
    /\ ppc' = "waitpid1"
    /\ UNCHANGED <<ring, input, line_count, stdin_pipe, stdout_pipe, child, merge>>

\* waitpid(child_k.pid, &status, 0) returns when child k has exited.
Waitpid(k) ==
    /\ ppc = (IF k = 1 THEN "waitpid1" ELSE "waitpid2")
    /\ child[k].pc = "exited"
    /\ ppc' = (IF k = 1 THEN "waitpid2" ELSE "merge")
    /\ UNCHANGED <<ring, input, line_count, stdin_pipe, stdout_pipe, child, merge>>

\* getline on the read end of a child's stdout pipe after the child has
\* exited: the next line, or -1 at the end.
NextLine(q) == IF q = << >> THEN EndOfFile ELSE Head(q)

\* The pipe after that getline.
AfterLine(q) == IF q = << >> THEN q ELSE Tail(q)

\* One iteration of the merge loop.
MergeStep ==
    /\ ppc = "merge"
    /\ LET r1 == IF merge.skip_first THEN merge.first ELSE NextLine(stdout_pipe[1])
           r2 == IF merge.skip_second THEN merge.second ELSE NextLine(stdout_pipe[2])
           takes == IF r1 = EndOfFile /\ r2 = EndOfFile THEN 0
                    ELSE IF r1 = EndOfFile THEN 2
                    ELSE IF r2 = EndOfFile THEN 1
                    ELSE IF r1 < r2 THEN 1 ELSE 2
       IN /\ stdout_pipe' =
                [k \in 1..2 |->
                    IF (k = 1 /\ ~merge.skip_first) \/ (k = 2 /\ ~merge.skip_second)
                    THEN AfterLine(stdout_pipe[k]) ELSE stdout_pipe[k]]
          /\ merge' = [first |-> r1, second |-> r2,
                       skip_first |-> takes = 2, skip_second |-> takes = 1,
                       printed |-> IF takes = 1 THEN Append(merge.printed, r1)
                                   ELSE IF takes = 2 THEN Append(merge.printed, r2)
                                   ELSE merge.printed]
          /\ ppc' = IF takes = 0 THEN "done" ELSE "merge"
    /\ UNCHANGED <<ring, input, line_count, stdin_pipe, child>>

Parent ==
    \/ GreaterOneLine \/ RunChild \/ WriteLine \/ CloseWritePipes
    \/ Waitpid(1) \/ Waitpid(2) \/ MergeStep

\* The processes that hold the write end of child k's stdin pipe open: the
\* parent until fclose, and for child 1 also child 2, which is forked while
\* child_1.stdin_pipe[1] is open in the parent and closes only the ends of
\* its own pipes.
WriteEndOpen(k) ==
    \/ ppc \in {"fork", "write", "close"}
    \/ k = 1 /\ child[2].pc \in {"read", "write"}

\* Child k reads a line from its stdin.
ChildRead(k) ==
    /\ child[k].pc = "read"
    /\ stdin_pipe[k] # << >>
    /\ child' = [child EXCEPT ![k].lines = Append(@, Head(stdin_pipe[k]))]
    /\ stdin_pipe' = [stdin_pipe EXCEPT ![k] = Tail(@)]
    /\ UNCHANGED <<ring, input, ppc, line_count, stdout_pipe, merge>>

\* Child k's getline returns -1: the pipe is empty and no write end is open.
ChildEof(k) ==
    /\ child[k].pc = "read"
    /\ stdin_pipe[k] = << >>
    /\ ~WriteEndOpen(k)
    /\ child' = [child EXCEPT ![k].outq = SortedLines(child[k].lines),
                              ![k].pc = "write"]
    /\ UNCHANGED <<ring, input, ppc, line_count, stdin_pipe, stdout_pipe, merge>>

\* Child k writes a line of its output to its stdout pipe.
ChildWrite(k) ==
    /\ child[k].pc = "write"
    /\ child[k].outq # << >>
    /\ Len(stdout_pipe[k]) < PipeCap
    /\ stdout_pipe' = [stdout_pipe EXCEPT ![k] = Append(@, Head(child[k].outq))]
    /\ child' = [child EXCEPT ![k].outq = Tail(@)]
    /\ UNCHANGED <<ring, input, ppc, line_count, stdin_pipe, merge>>

\* Child k exits: all its output is in the pipe.
ChildExit(k) ==
    /\ child[k].pc = "write"
    /\ child[k].outq = << >>
    /\ child' = [child EXCEPT ![k].pc = "exited"]
    /\ UNCHANGED <<ring, input, ppc, line_count, stdin_pipe, stdout_pipe, merge>>

Child(k) == ChildRead(k) \/ ChildEof(k) \/ ChildWrite(k) \/ ChildExit(k)

\* Every input of at most MaxLines lines.
Inputs == UNION {[1..n -> 1..2] : n \in 0..MaxLines}

SortInit ==
    /\ halt = FALSE
    /\ data = [s \in Slots |-> 0]
    /\ write_idx = 0
    /\ read_idx = 0
    /\ sem_free = 0
    /\ sem_used = 0
    /\ sem_mutex = 0
    /\ names = {}
    /\ op = << >>
    /\ graph = << >>
    /\ Locals(0, 0, 0)
    /\ input \in Inputs
    /\ ppc = "start"
    /\ line_count = 0
    /\ stdin_pipe = [k \in 1..2 |-> << >>]
    /\ stdout_pipe = [k \in 1..2 |-> << >>]
    /\ child = [k \in 1..2 |-> NewChild]
    /\ merge = NewMerge

SortNext == Parent \/ \E k \in 1..2 : Child(k)

SortSpec == SortInit /\ [][SortNext]_vars

\* The parent is in one of its two waitpid calls.
InWaitpid == ppc \in {"waitpid1", "waitpid2"}

\* Child k has output left and its stdout pipe is full.
BlockedWriting(k) ==
    child[k].pc = "write" /\ child[k].outq # << >> /\ Len(stdout_pipe[k]) >= PipeCap

\* C37: forksort is never in a state where a child is blocked writing to its
\* full stdout pipe while the parent is in waitpid (the parent reads the
\* pipes only after both waitpid calls have returned, so that child never
\* exits and neither process ever runs again).
ForksortNotStuck ==
    ~(InWaitpid /\ \E k \in 1..2 : BlockedWriting(k))

=============================================================================
